---- MODULE Spec2Model ----
(***************************************************************************)
(* A model of the algorithmic core of the MNIST-Fashion coursework:        *)
(*   - PCA (src/src/methods/pca.py): the fit / reduce life cycle;          *)
(*   - patchify, get_positional_embeddings, MyMSA and the constructor of   *)
(*     MyViT (src/344929_344939_344848_project/src/methods/deep_network.py)*)
(*                                                                         *)
(* Tensors of deep_network.py are functions over 0..n-1, as the code       *)
(* indexes them; the arrays of pca.py are sequences (1-based), row major.  *)
(* Real numbers are kept exact: a quotient is a record [num, den], a value *)
(* divided by a square root is a record [num, root] (num / sqrt(root)),    *)
(* and sin/cos values are kept as the term the code evaluates.             *)
(***************************************************************************)
EXTENDS Integers, Sequences, FiniteSets, TLC

VARIABLES
    d,          \* PCA.d
    mean,       \* PCA.mean (None until a fit stores it)
    W,          \* PCA.W    (None until a fit stores it)
    pcaCall,    \* the last call on the PCA instance, its argument and outcome
    nfits,      \* number of completed find_principal_components calls
    pat,        \* the last call of patchify and its outcome
    vit,        \* the last construction of MyViT and its outcome
    msa,        \* the MyMSA module (None before construction)
    msaCall,    \* the last call of MyMSA.forward and its outcome
    pe          \* the last call of get_positional_embeddings and its outcome

vars == <<d, mean, W, pcaCall, nfits, pat, vit, msa, msaCall, pe>>

----------------------------------------------------------------------------
(* Bounds of the model *)

\* largest feature count D of a PCA data set
MaxD == 2
\* number of fits explored on one PCA instance
MaxFits == 2

----------------------------------------------------------------------------
(* Python values *)

None == [isNone |-> TRUE]
Some(v) == [isNone |-> FALSE, val |-> v]

Min(a, b) == IF a <= b THEN a ELSE b
Max(a, b) == IF a >= b THEN a ELSE b

RECURSIVE SeqSum(_)
SeqSum(s) == IF s = <<>> THEN 0 ELSE Head(s) + SeqSum(Tail(s))

----------------------------------------------------------------------------
(* pca.py *)

\* s[::-1]
Reversed(s) == [i \in 1..Len(s) |-> s[Len(s) + 1 - i]]

\* s[:k] for k >= 0: a slice stops at the end of the array
Prefix(s, k) == SubSeq(s, 1, Min(k, Len(s)))

\* m[:, ::-1]
ReversedColumns(m) == [r \in 1..Len(m) |-> Reversed(m[r])]

\* m[:, :k]
PrefixColumns(m, k) == [r \in 1..Len(m) |-> Prefix(m[r], k)]

NumColumns(m) == IF Len(m) = 0 THEN 0 ELSE Len(m[1])

(* A training set (N,D), N >= 2, as find_principal_components sees it: the *)
(* feature means np.mean returns and the eigen-decomposition np.linalg.eigh*)
(* returns for its covariance matrix (eigenvalues ascending, column k of   *)
(* eigvecs the unit eigenvector of eigvals[k]).  The data sets drawn here  *)
(* have uncorrelated features, so the eigenvectors are the axes in some    *)
(* order.  For D = 1 np.cov squeezes the covariance to a 0-d array, which  *)
(* np.linalg.eigh rejects.                                                 *)
Ascending(D) ==
    {e \in [1..D -> 0..2] : \A i \in 1..(D - 1) : e[i] <= e[i + 1]}

\* the orders in which the axes can be the eigenvectors
AxisOrders(D) == {[k \in 1..D |-> p[k]] : p \in Permutations(1..D)}

\* feature means: all zero, or 1, 2, ..., D
Means(D) == {[k \in 1..D |-> 0], [k \in 1..D |-> k]}

AxisMatrix(p) ==
    [r \in 1..Len(p) |-> [k \in 1..Len(p) |-> IF p[k] = r THEN 1 ELSE 0]]

TrainingSets ==
    UNION {
        {[D |-> D, mean |-> m, eigvals |-> e, eigvecs |-> AxisMatrix(p)] :
            m \in Means(D), e \in Ascending(D), p \in AxisOrders(D)}
        : D \in 1..MaxD}

\* data of shape (1,D) handed to reduce_dimension
DataSets == UNION {{<<row>> : row \in [1..D -> {0, 1}]} : D \in 1..MaxD}

\* line 43: np.mean(training_data, axis=0)
np_mean(ts) == ts.mean

\* lines 47-49: np.linalg.eigh(np.cov(...)) raises when the covariance is 0-d
eigh_raises(ts) == ts.D = 1

DescendingNoReverse(eigvals) == eigvals

\* line 51: eigvals[::-1]
Descending(eigvals) == Reversed(eigvals)

\* line 52 and 54: eigvecs[:, ::-1][:, :self.d]
KeptComponents(ts, dd) == PrefixColumns(ReversedColumns(ts.eigvecs), dd)

\* lines 55-58: np.sum(eg) / np.sum(eigvals) * 100, as an exact quotient
\* (den = 0 is the float nan of 0/0)
ExplainedVariance(eigvalsAsc, dd) ==
    LET eigvals == Descending(eigvalsAsc)
        eg      == Prefix(eigvals, dd)
    IN  [num |-> SeqSum(eg) * 100, den |-> SeqSum(eigvals)]

find_principal_components(ts) ==
    /\ nfits < MaxFits
    /\ mean' = Some(np_mean(ts))
    /\ IF eigh_raises(ts)
       THEN /\ W' = W
            /\ nfits' = nfits
            /\ pcaCall' = [op |-> "find_principal_components", arg |-> ts,
                           outcome |-> "LinAlgError", result |-> None]
       ELSE /\ W' = Some(KeptComponents(ts, d))
            /\ nfits' = nfits + 1
            /\ pcaCall' = [op |-> "find_principal_components", arg |-> ts,
                           outcome |-> "returned",
                           result |-> Some(ExplainedVariance(ts.eigvals, d))]
    /\ UNCHANGED d

\* numpy broadcasting of a (1,a) array with a (b,) array
Broadcastable(a, b) == a = b \/ a = 1 \/ b = 1

\* data - mean, for shapes that broadcast
Subtract(row, m) ==
    [c \in 1..Max(Len(row), Len(m)) |->
        (IF Len(row) = 1 THEN row[1] ELSE row[c])
      - (IF Len(m) = 1 THEN m[1] ELSE m[c])]

RECURSIVE Dot(_, _, _)
Dot(x, m, c) ==
    \* sum over r of x[r] * m[r][c]
    IF x = <<>> THEN 0 ELSE Head(x) * Head(m)[c] + Dot(Tail(x), Tail(m), c)

\* x @ m for a row x and a matrix m with Len(x) rows
MatMulRow(x, m) == [c \in 1..NumColumns(m) |-> Dot(x, m, c)]

reduce_dimension_permissive(data, m, w) ==
    IF m.isNone \/ w.isNone
    THEN [outcome |-> "returned", result |-> Some(data)]
    ELSE IF ~Broadcastable(Len(data[1]), Len(m.val))
         \/ Max(Len(data[1]), Len(m.val)) # Len(w.val)
    THEN [outcome |-> "ValueError", result |-> None]
    ELSE [outcome |-> "returned",
          result |-> Some([n \in 1..Len(data) |->
                            MatMulRow(Subtract(data[n], m.val), w.val)])]

\* lines 71-73: (data - self.mean) @ self.W
reduce_dimension_result(data, m, w) ==
    IF m.isNone
    THEN [outcome |-> "TypeError", result |-> None]
    ELSE IF ~Broadcastable(Len(data[1]), Len(m.val))
    THEN [outcome |-> "ValueError", result |-> None]
    ELSE IF w.isNone
    THEN [outcome |-> "TypeError", result |-> None]
    ELSE IF Max(Len(data[1]), Len(m.val)) # Len(w.val)
    THEN [outcome |-> "ValueError", result |-> None]
    ELSE [outcome |-> "returned",
          result |-> Some([n \in 1..Len(data) |->
                            MatMulRow(Subtract(data[n], m.val), w.val)])]

reduce_dimension_storing(data) ==
    LET r == reduce_dimension_result(data, mean, W)
    IN  /\ pcaCall' = [op |-> "reduce_dimension", arg |-> data,
                       outcome |-> r.outcome, result |-> r.result]
        /\ mean' = Some(data[1])
        /\ UNCHANGED <<d, W, nfits>>

reduce_dimension(data) ==
    LET r == reduce_dimension_result(data, mean, W)
    IN  /\ pcaCall' = [op |-> "reduce_dimension", arg |-> data,
                       outcome |-> r.outcome, result |-> r.result]
        /\ UNCHANGED <<d, mean, W, nfits>>

NoCall == [op |-> "none", arg |-> None, outcome |-> "none", result |-> None]

\* PCA.__init__ (lines 21-26)
PCAInit ==
    /\ d \in 0..(MaxD + 1)
    /\ mean = None
    /\ W = None
    /\ pcaCall = NoCall
    /\ nfits = 0

PCAIdle == d = 0 /\ mean = None /\ W = None /\ pcaCall = NoCall /\ nfits = 0

Fit == \E ts \in TrainingSets : find_principal_components(ts)
Reduce == \E data \in DataSets : reduce_dimension(data)

----------------------------------------------------------------------------
(* deep_network.py: tensors *)

\* largest batch size N of an image batch
MaxBatch == 2
\* largest channel count C
MaxChannels == 2
\* largest image height or width
MaxSide == 4
\* largest n_patches
MaxPatches == 3

RECURSIVE Sigma(_, _)
\* f[0] + ... + f[n-1]
Sigma(f, n) == IF n = 0 THEN 0 ELSE Sigma(f, n - 1) + f[n - 1]

\* torch.arange(o, o + n*c*h*w).reshape(n, c, h, w): every pixel its own value
ArangeImages(n, c, h, w, o) ==
    [shape |-> <<n, c, h, w>>,
     data  |-> [idx \in 0..(n - 1) |-> [ch \in 0..(c - 1) |->
                 [y \in 0..(h - 1) |-> [x \in 0..(w - 1) |->
                    o + ((idx * c + ch) * h + y) * w + x]]]]]

ImageBatches ==
    {ArangeImages(n, c, h, w, o) :
        n \in 1..MaxBatch, c \in 1..MaxChannels,
        h \in 1..MaxSide, w \in 1..MaxSide, o \in {0, 1}}

----------------------------------------------------------------------------
(* deep_network.py: patchify (lines 367-384) *)

\* line 380: image[:, i*patch_size:(i+1)*patch_size, j*patch_size:(j+1)*patch_size]
PatchOf(image, c, patch_size, i, j) ==
    [ch \in 0..(c - 1) |-> [r \in 0..(patch_size - 1) |->
        [col \in 0..(patch_size - 1) |->
            image[ch][i * patch_size + r][j * patch_size + col]]]]

FlattenTransposed(patch, c, patch_size) ==
    [q \in 0..(c * patch_size * patch_size - 1) |->
        patch[q \div (patch_size * patch_size)]
             [q % patch_size]
             [(q \div patch_size) % patch_size]]

\* line 383: patch.flatten(), row-major over (channel, row, column)
Flatten(patch, c, patch_size) ==
    [q \in 0..(c * patch_size * patch_size - 1) |->
        patch[q \div (patch_size * patch_size)]
             [(q \div patch_size) % patch_size]
             [q % patch_size]]

\* line 383: patches[idx, k] = flat; a one-element source is broadcast over
\* the row, any other size mismatch raises
AssignRow(flat, S, T) == [q \in 0..(T - 1) |-> IF S = 1 THEN flat[0] ELSE flat[q]]

patchify(images, n_patches) ==
    LET n == images.shape[1]
        c == images.shape[2]
        h == images.shape[3]
        w == images.shape[4]
        T == (h * w * c) \div (n_patches * n_patches)
        patch_size == h \div n_patches
        S == c * patch_size * patch_size
    IN  IF h # w
        THEN [outcome |-> "AssertionError", patches |-> None]
        ELSE IF S # T /\ S # 1
        THEN [outcome |-> "RuntimeError", patches |-> None]
        ELSE [outcome |-> "returned",
              patches |-> Some(
                [shape |-> <<n, n_patches * n_patches, T>>,
                 data  |-> [idx \in 0..(n - 1) |->
                            [k \in 0..(n_patches * n_patches - 1) |->
                                \* k = i * n_patches + j
                                AssignRow(
                                    Flatten(PatchOf(images.data[idx], c, patch_size,
                                                    k \div n_patches, k % n_patches),
                                            c, patch_size),
                                    S, T)]]])]

NoPatchCall == [called |-> FALSE, images |-> None, n_patches |-> 0,
                outcome |-> "none", patches |-> None]

Patchify ==
    /\ ~pat.called
    /\ \E images \in ImageBatches, n_patches \in 1..MaxPatches :
        LET r == patchify(images, n_patches)
        IN  pat' = [called |-> TRUE, images |-> Some(images), n_patches |-> n_patches,
                    outcome |-> r.outcome, patches |-> r.patches]

----------------------------------------------------------------------------
(* deep_network.py: get_positional_embeddings (lines 397-406, which replace *)
(* the identical definition of lines 386-395)                               *)

\* largest sequence_length of an embedding table
MaxSeqLen == 10
\* largest embedding dimension of an embedding table
MaxEmbed == 10

\* the base of the frequency term
Base == 10000

\* fn(pos / base^(expnum/expden)), kept as a term
Term(fn, pos, expnum, expden) ==
    [fn |-> fn, pos |-> pos, base |-> Base, expnum |-> expnum, expden |-> expden]

\* line 403: np.sin(i/(10000**(j/d)))
EvenColumn(i, j, dm) == Term("sin", i, j, dm)

OddColumnOwnIndex(i, j, dm) == Term("cos", i, j, dm)

\* line 405: np.cos(i/(10000**((j-1)/d)))
OddColumn(i, j, dm) == Term("cos", i, j - 1, dm)

get_positional_embeddings(sequence_length, dm) ==
    [shape |-> <<sequence_length, dm>>,
     data  |-> [i \in 0..(sequence_length - 1) |-> [j \in 0..(dm - 1) |->
                    IF j % 2 = 0 THEN EvenColumn(i, j, dm)
                                 ELSE OddColumn(i, j, dm)]]]

NoEmbeddingCall == [called |-> FALSE, sequence_length |-> 0, d |-> 0, result |-> None]

PositionalEmbeddings ==
    /\ ~pe.called
    /\ \E sequence_length \in 0..MaxSeqLen, dm \in 0..MaxEmbed :
        pe' = [called |-> TRUE, sequence_length |-> sequence_length, d |-> dm,
               result |-> Some(get_positional_embeddings(sequence_length, dm))]

----------------------------------------------------------------------------
(* deep_network.py: MyMSA (lines 408-443) *)

\* largest number of sequences in a batch handed to MyMSA.forward
MaxSeqs == 2

\* line 414: assert d % n_heads == 0
MyMSA_assert(dm, n_heads) == dm % n_heads = 0

(* nn.Linear(d_head, d_head) draws its weight and bias at random; seed     *)
(* stands for the state of the generator when the layer is created.        *)
Linear(seed, d_head) ==
    [weight |-> [o \in 0..(d_head - 1) |-> [a \in 0..(d_head - 1) |->
                    ((seed + o + 2 * a) % 3) - 1]],
     bias   |-> [o \in 0..(d_head - 1) |-> (seed + o) % 2]]

\* lines 409-422
MyMSA_init(dm, n_heads, seed) ==
    IF ~MyMSA_assert(dm, n_heads)
    THEN [outcome |-> "AssertionError", module |-> None]
    ELSE LET d_head == dm \div n_heads
         IN  [outcome |-> "constructed",
              module |-> Some(
                [d |-> dm, n_heads |-> n_heads, d_head |-> d_head,
                 q_mappings |-> [h \in 0..(n_heads - 1) |-> Linear(seed + 3 * h, d_head)],
                 k_mappings |-> [h \in 0..(n_heads - 1) |-> Linear(seed + 3 * h + 1, d_head)],
                 v_mappings |-> [h \in 0..(n_heads - 1) |-> Linear(seed + 3 * h + 2, d_head)]])]

\* a Linear layer applied to a sequence of L tokens of width d_head
ApplyLinear(lin, seq, L, d_head) ==
    [l \in 0..(L - 1) |-> [o \in 0..(d_head - 1) |->
        Sigma([a \in 0..(d_head - 1) |-> lin.weight[o][a] * seq[l][a]], d_head)
        + lin.bias[o]]]

HeadSliceFirst(sequence, head, L, d_head) ==
    [l \in 0..(L - 1) |-> [a \in 0..(d_head - 1) |-> sequence[l][a]]]

\* line 435: sequence[:, head * self.d_head: (head + 1) * self.d_head]
HeadSlice(sequence, head, L, d_head) ==
    [l \in 0..(L - 1) |-> [a \in 0..(d_head - 1) |-> sequence[l][head * d_head + a]]]

\* line 440: q @ k.T / np.sqrt(self.d_head); entry [l][m] is num / sqrt(root)
Attention(q, k, L, d_head) ==
    [l \in 0..(L - 1) |-> [m \in 0..(L - 1) |->
        [num  |-> Sigma([o \in 0..(d_head - 1) |-> q[l][o] * k[m][o]], d_head),
         root |-> d_head]]]

\* line 441: attention @ v
AttentionTimesV(attention, v, L, d_head) ==
    [l \in 0..(L - 1) |-> [c \in 0..(d_head - 1) |->
        [num  |-> Sigma([m \in 0..(L - 1) |-> attention[l][m].num * v[m][c]], L),
         root |-> d_head]]]

\* lines 431-440 for one head of one sequence: the matrix multiplied by v
HeadAttention(mod, sequence, head, L) ==
    LET seq == HeadSlice(sequence, head, L, mod.d_head)
        q   == ApplyLinear(mod.q_mappings[head], seq, L, mod.d_head)
        k   == ApplyLinear(mod.k_mappings[head], seq, L, mod.d_head)
    IN  Attention(q, k, L, mod.d_head)

\* lines 431-441 for one head of one sequence
HeadResult(mod, sequence, head, L) ==
    LET seq == HeadSlice(sequence, head, L, mod.d_head)
        v   == ApplyLinear(mod.v_mappings[head], seq, L, mod.d_head)
    IN  AttentionTimesV(HeadAttention(mod, sequence, head, L), v, L, mod.d_head)

\* line 442: torch.hstack(seq_result)
HStack(seq_result, n_heads, L, d_head) ==
    [l \in 0..(L - 1) |-> [c \in 0..(n_heads * d_head - 1) |->
        seq_result[c \div d_head][l][c % d_head]]]

\* lines 424-443
MyMSA_forward(mod, sequences) ==
    LET B == sequences.shape[1]
        L == sequences.shape[2]
    IN  [shape |-> <<B, L, mod.n_heads * mod.d_head>>,
         data  |-> [b \in 0..(B - 1) |->
                     HStack([head \in 0..(mod.n_heads - 1) |->
                                HeadResult(mod, sequences.data[b], head, L)],
                            mod.n_heads, L, mod.d_head)]]

\* the (d, n_heads) of the modules explored
MSAShapes == {<<1, 1>>, <<2, 1>>, <<2, 2>>, <<3, 2>>, <<4, 2>>}

\* generator states at construction
MSASeeds == {0, 1, 2}

\* batches (B, L, dm) of 0/1 entries, of at most two tokens a sequence and
\* eight entries a batch
SequenceBatches(dm) ==
    UNION {
        {[shape |-> <<BL[1], BL[2], dm>>, data |-> x] :
            x \in [0..(BL[1] - 1) -> [0..(BL[2] - 1) -> [0..(dm - 1) -> {0, 1}]]]}
        : BL \in {bl \in (1..MaxSeqs) \X (1..2) : bl[1] * bl[2] * dm <= 8}}

NoModule == [outcome |-> "none", module |-> None]

NoForwardCall == [called |-> FALSE, sequences |-> None,
                  attention |-> None, result |-> None]

ConstructMSA ==
    /\ msa = NoModule
    /\ \E shape \in MSAShapes, seed \in MSASeeds :
        msa' = MyMSA_init(shape[1], shape[2], seed)
    /\ UNCHANGED msaCall

Forward ==
    /\ msa.outcome = "constructed"
    /\ ~msaCall.called
    /\ \E sequences \in SequenceBatches(msa.module.val.d) :
        LET mod == msa.module.val
            B   == sequences.shape[1]
            L   == sequences.shape[2]
        IN  msaCall' = [called |-> TRUE, sequences |-> Some(sequences),
                        attention |-> Some([b \in 0..(B - 1) |->
                            [head \in 0..(mod.n_heads - 1) |->
                                HeadAttention(mod, sequences.data[b], head, L)]]),
                        result |-> Some(MyMSA_forward(mod, sequences))]
    /\ UNCHANGED msa

----------------------------------------------------------------------------
(* deep_network.py: MyViT.__init__ (lines 130-165) *)

\* largest n_blocks
MaxBlocks == 1
\* largest hidden_d
MaxHidden == 4
\* largest n_heads
MaxHeads == 2

\* lines 446-458: MyViTBlock.__init__ builds MyMSA(hidden_d, n_heads)
MyViTBlock_init(hidden_d, n_heads) ==
    IF ~MyMSA_assert(hidden_d, n_heads)
    THEN [outcome |-> "AssertionError", block |-> None]
    ELSE [outcome |-> "constructed",
          block |-> Some([hidden_d |-> hidden_d, n_heads |-> n_heads,
                          mhsa |-> [d |-> hidden_d, n_heads |-> n_heads,
                                    d_head |-> hidden_d \div n_heads]])]

\* chw is (C, H, W), indexed from 0
MyViT_init(chw, n_patches, n_blocks, hidden_d, n_heads, out_d) ==
    IF chw[1] % n_patches # 0 \/ chw[2] % n_patches # 0
    THEN [outcome |-> "AssertionError", instance |-> None]
    ELSE IF \E b \in 0..(n_blocks - 1) :
                MyViTBlock_init(hidden_d, n_heads).outcome # "constructed"
    THEN [outcome |-> "AssertionError", instance |-> None]
    ELSE [outcome |-> "constructed",
          instance |-> Some(
            [chw |-> chw, n_patches |-> n_patches, n_blocks |-> n_blocks,
             n_heads |-> n_heads, hidden_d |-> hidden_d,
             patch_size |-> <<chw[1] \div n_patches, chw[2] \div n_patches>>,
             input_d |-> chw[0] * (chw[1] \div n_patches) * (chw[2] \div n_patches),
             positional_embeddings |->
                get_positional_embeddings(n_patches * n_patches + 1, hidden_d),
             blocks |-> [b \in 0..(n_blocks - 1) |->
                            MyViTBlock_init(hidden_d, n_heads).block.val],
             out_d |-> out_d])]

NoViT == [called |-> FALSE, args |-> None, outcome |-> "none", instance |-> None]

ConstructViT ==
    /\ ~vit.called
    /\ \E c \in 1..MaxChannels, h \in 1..MaxSide, w \in 1..MaxSide,
       n_patches \in 1..MaxPatches, n_blocks \in 0..MaxBlocks,
       hidden_d \in 1..MaxHidden, n_heads \in 1..MaxHeads, out_d \in {3, 10} :
        LET chw == [k \in 0..2 |-> IF k = 0 THEN c ELSE IF k = 1 THEN h ELSE w]
            r   == MyViT_init(chw, n_patches, n_blocks, hidden_d, n_heads, out_d)
        IN  vit' = [called |-> TRUE,
                    args |-> Some([chw |-> chw, n_patches |-> n_patches,
                                   n_blocks |-> n_blocks, hidden_d |-> hidden_d,
                                   n_heads |-> n_heads, out_d |-> out_d]),
                    outcome |-> r.outcome, instance |-> r.instance]

----------------------------------------------------------------------------
(* Specifications: one per component; the other components stay idle *)

PatchIdle == pat = NoPatchCall
ViTIdle == vit = NoViT
MSAIdle == msa = NoModule /\ msaCall = NoForwardCall
EmbedIdle == pe = NoEmbeddingCall

\* the PCA instance
InitPCA == PCAInit /\ PatchIdle /\ ViTIdle /\ MSAIdle /\ EmbedIdle
NextPCA ==
    \/ Fit /\ UNCHANGED <<pat, vit, msa, msaCall, pe>>
    \/ Reduce /\ UNCHANGED <<pat, vit, msa, msaCall, pe>>
SpecPCA == InitPCA /\ [][NextPCA]_vars

\* patchify
InitPatch == PCAIdle /\ PatchIdle /\ ViTIdle /\ MSAIdle /\ EmbedIdle
NextPatch == Patchify /\ UNCHANGED <<d, mean, W, pcaCall, nfits, vit, msa, msaCall, pe>>
SpecPatch == InitPatch /\ [][NextPatch]_vars

\* the constructor of MyViT
InitViT == PCAIdle /\ PatchIdle /\ ViTIdle /\ MSAIdle /\ EmbedIdle
NextViT == ConstructViT /\ UNCHANGED <<d, mean, W, pcaCall, nfits, pat, msa, msaCall, pe>>
SpecViT == InitViT /\ [][NextViT]_vars

\* MyMSA
InitMSA == PCAIdle /\ PatchIdle /\ ViTIdle /\ MSAIdle /\ EmbedIdle
NextMSA ==
    \/ ConstructMSA /\ UNCHANGED <<d, mean, W, pcaCall, nfits, pat, vit, pe>>
    \/ Forward /\ UNCHANGED <<d, mean, W, pcaCall, nfits, pat, vit, pe>>
SpecMSA == InitMSA /\ [][NextMSA]_vars

\* get_positional_embeddings
InitEmbed == PCAIdle /\ PatchIdle /\ ViTIdle /\ MSAIdle /\ EmbedIdle
NextEmbed ==
    PositionalEmbeddings /\ UNCHANGED <<d, mean, W, pcaCall, nfits, pat, vit, msa, msaCall>>
SpecEmbed == InitEmbed /\ [][NextEmbed]_vars

\* the whole program: the components share no state, so every claim is
\* checked under the specification of its component
Init == InitPCA
Next == NextPCA \/ NextPatch \/ NextViT \/ NextMSA \/ NextEmbed
Spec == Init /\ [][Next]_vars

----------------------------------------------------------------------------
(* Claims about PCA, checked under SpecPCA *)

FitCompleted ==
    pcaCall.op = "find_principal_components" /\ pcaCall.outcome = "returned"

\* C5: reduce_dimension on an instance on which find_principal_components
\* has never completed raises, returns no data array, and leaves the
\* instance unfitted.
C5_ReduceBeforeFitFails ==
    /\ [](pcaCall.op = "reduce_dimension" /\ nfits = 0 =>
            /\ pcaCall.outcome \in {"TypeError", "ValueError"}
            /\ pcaCall.result.isNone
            /\ W.isNone)
    /\ [][pcaCall'.op = "reduce_dimension" /\ nfits = 0 =>
            nfits' = 0 /\ W' = W /\ mean' = mean]_vars

C5_Witness ==
    /\ pcaCall.op = "reduce_dimension"
    /\ nfits = 0 /\ mean.isNone /\ W.isNone
    /\ pcaCall.outcome = "TypeError"

\* C6: with d greater than the feature count D, find_principal_components
\* never completes with a W of fewer than d columns.
C6_FitNeverTruncates ==
    FitCompleted /\ d > pcaCall.arg.D => NumColumns(W.val) >= d

RECURSIVE SetSum(_, _)
\* the sum of e[i] over the indices i of S
SetSum(e, S) ==
    IF S = {} THEN 0
    ELSE LET i == CHOOSE j \in S : TRUE IN e[i] + SetSum(e, S \ {i})

\* the largest sum any k of the eigenvalues have
LargestSum(e, k) ==
    LET sums == {SetSum(e, S) : S \in {T \in SUBSET (1..Len(e)) : Cardinality(T) = k}}
    IN  CHOOSE x \in sums : \A y \in sums : y <= x

C10_FrameOfFitAndReduce ==
    [][ /\ pcaCall'.op = "reduce_dimension" => UNCHANGED <<mean, W, d>>
        /\ (mean' # mean \/ W' # W) => pcaCall'.op = "find_principal_components"
        /\ (pcaCall'.op = "find_principal_components"
                /\ pcaCall'.outcome = "returned") =>
            LET ts == pcaCall'.arg
            IN  /\ mean' = Some(ts.mean)
                /\ W' = Some([r \in 1..ts.D |-> [c \in 1..Min(d, ts.D) |->
                                ts.eigvecs[r][ts.D + 1 - c]]])
        /\ (~mean.isNone /\ ~W.isNone) => (~mean'.isNone /\ ~W'.isNone)
      ]_vars

C10_Witness ==
    /\ nfits = 2
    /\ pcaCall.op = "reduce_dimension"
    /\ pcaCall.outcome = "returned"

----------------------------------------------------------------------------
(* Claims about patchify, checked under SpecPatch *)

PatN == pat.images.val.shape[1]
PatC == pat.images.val.shape[2]
PatH == pat.images.val.shape[3]
PatW == pat.images.val.shape[4]

\* C1: for H = W and H divisible by n_patches the result has shape
\* (N, n_patches^2, C*s^2), s = H/n_patches; row i*n_patches+j holds the
\* block rows [i*s,(i+1)*s) x columns [j*s,(j+1)*s) of all channels, channel
\* first, then row, then column; every input pixel is at exactly one place
\* of the result.
C1_PatchifyLayout ==
    (pat.called /\ PatH = PatW /\ PatH % pat.n_patches = 0) =>
        LET np  == pat.n_patches
            s   == PatH \div np
            img == pat.images.val.data
        IN  /\ pat.outcome = "returned"
            /\ pat.patches.val.shape = <<PatN, np * np, PatC * s * s>>
            /\ \A idx \in 0..(PatN - 1), i, j \in 0..(np - 1) :
                /\ DOMAIN pat.patches.val.data[idx][i * np + j]
                        = 0..(PatC * s * s - 1)
                /\ \A ch \in 0..(PatC - 1), r, col \in 0..(s - 1) :
                    pat.patches.val.data[idx][i * np + j][(ch * s + r) * s + col]
                        = img[idx][ch][i * s + r][j * s + col]
            /\ \A idx \in 0..(PatN - 1), ch \in 0..(PatC - 1),
                  y, x \in 0..(PatH - 1) :
                Cardinality({kq \in (0..(np * np - 1)) \X (0..(PatC * s * s - 1)) :
                    pat.patches.val.data[idx][kq[1]][kq[2]] = img[idx][ch][y][x]}) = 1

C1_Witness ==
    /\ pat.called /\ pat.outcome = "returned"
    /\ PatH = PatW /\ PatH % pat.n_patches = 0
    /\ pat.n_patches = 2 /\ PatH = 4 /\ PatC = 2 /\ PatN = 2

\* C3: patchify raises, and returns no patch tensor, whenever H # W or H is
\* not divisible by n_patches.
C3_PatchifyRejectsBadShapes ==
    (pat.called /\ (PatH # PatW \/ PatH % pat.n_patches # 0)) =>
        pat.outcome # "returned"

----------------------------------------------------------------------------
(* Claims about the constructor of MyViT, checked under SpecViT *)

\* C4: constructing MyViT fails whenever the image height or width is not
\* divisible by n_patches, and whenever hidden_d is not divisible by n_heads,
\* for every n_blocks >= 0.
C4_ConstructorRejects ==
    (vit.called /\ (\/ vit.args.val.chw[1] % vit.args.val.n_patches # 0
                    \/ vit.args.val.chw[2] % vit.args.val.n_patches # 0
                    \/ vit.args.val.hidden_d % vit.args.val.n_heads # 0)) =>
        vit.outcome # "constructed"

----------------------------------------------------------------------------
(* Claims about get_positional_embeddings, checked under SpecEmbed *)

\* the exponent of t is the quotient a / b
ExponentIs(t, a, b) == t.base = Base /\ t.expnum * b = a * t.expden

\* C8 as stated: in every row i, column 2k is the sine and column 2k+1 the
\* cosine of i divided by one shared term, and the term is 10000^(k/d).
\* (Row 0 is left out: sin(0) and cos(0) do not depend on the term.)
C8_SharedTermIsKOverD ==
    pe.called =>
        \A i \in 1..(pe.sequence_length - 1), k \in 0..pe.d :
            2 * k + 1 < pe.d =>
                LET even == pe.result.val.data[i][2 * k]
                    odd  == pe.result.val.data[i][2 * k + 1]
                IN  /\ even.fn = "sin" /\ even.pos = i
                    /\ odd.fn = "cos" /\ odd.pos = i
                    /\ ExponentIs(even, k, pe.d)
                    /\ ExponentIs(odd, k, pe.d)

\* C8 as amended: in every row i, column 2k is the sine and column 2k+1 the
\* cosine of i divided by one shared term, and the term is 10000^(2k/d).
C8_SharedTermIsTwoKOverD ==
    pe.called =>
        /\ pe.result.val.shape = <<pe.sequence_length, pe.d>>
        /\ \A i \in 0..(pe.sequence_length - 1), k \in 0..pe.d :
            2 * k + 1 < pe.d =>
                LET even == pe.result.val.data[i][2 * k]
                    odd  == pe.result.val.data[i][2 * k + 1]
                IN  /\ even.fn = "sin" /\ even.pos = i
                    /\ odd.fn = "cos" /\ odd.pos = i
                    /\ ExponentIs(even, 2 * k, pe.d)
                    /\ ExponentIs(odd, 2 * k, pe.d)

C8_Witness ==
    /\ pe.called /\ pe.sequence_length >= 3 /\ pe.d >= 6
    /\ pe.result.val.data[2][5] = Term("cos", 2, 4, pe.d)

----------------------------------------------------------------------------
(* Claims about MyMSA.forward, checked under SpecMSA *)

\* C2: in every head the weights multiplied by V are the row-wise softmax
\* of the scaled scores: in every row they are non-negative and sum to 1.
\* (A row of num / sqrt(root) sums to 1 iff its nums sum to sqrt(root).)
C2_WeightsAreSoftmax ==
    msaCall.called =>
        LET mod == msa.module.val
            B   == msaCall.sequences.val.shape[1]
            L   == msaCall.sequences.val.shape[2]
        IN  \A b \in 0..(B - 1), head \in 0..(mod.n_heads - 1), l \in 0..(L - 1) :
                LET row == msaCall.attention.val[b][head][l]
                    sum == Sigma([m \in 0..(L - 1) |-> row[m].num], L)
                IN  /\ \A m \in 0..(L - 1) : row[m].num >= 0
                    /\ sum > 0
                    /\ sum * sum = mod.d_head

\* the batch x with entry [b][l][c] changed
Flipped(x, b, l, c) == [x EXCEPT !.data[b][l][c] = 1 - @]

\* C9: forward returns a tensor of the shape (B, L, d) of its input; the
\* columns [h*d_head, (h+1)*d_head) of sequence b of the result are the
\* result of head h, and do not change when an entry of another sequence or
\* of another column slice changes.
C9_ShapeAndIndependence ==
    msaCall.called =>
        LET mod == msa.module.val
            x   == msaCall.sequences.val
            y   == msaCall.result.val
            B   == x.shape[1]
            L   == x.shape[2]
        IN  /\ y.shape = x.shape
            /\ \A b \in 0..(B - 1), l \in 0..(L - 1) :
                 DOMAIN y.data[b][l] = 0..(mod.d - 1)
            /\ \A b \in 0..(B - 1), h \in 0..(mod.n_heads - 1),
                  l \in 0..(L - 1), c \in 0..(mod.d_head - 1) :
                 y.data[b][l][h * mod.d_head + c]
                    = HeadResult(mod, x.data[b], h, L)[l][c]
            /\ \A b \in 0..(B - 1), h \in 0..(mod.n_heads - 1) :
                 \A b2 \in 0..(B - 1), l2 \in 0..(L - 1), c2 \in 0..(mod.d - 1) :
                    (b2 # b \/ c2 \div mod.d_head # h) =>
                        LET y2 == MyMSA_forward(mod, Flipped(x, b2, l2, c2))
                        IN  \A l \in 0..(L - 1), c \in 0..(mod.d_head - 1) :
                                y2.data[b][l][h * mod.d_head + c]
                                    = y.data[b][l][h * mod.d_head + c]

C9_Witness ==
    /\ msaCall.called
    /\ msa.module.val.n_heads = 2 /\ msa.module.val.d_head = 2
    /\ msaCall.sequences.val.shape[1] = 2
    /\ \E l \in {0}, c \in 0..3 : msaCall.result.val.data[1][l][c].num # 0

====
